---------------------------- MODULE Spec2Model ----------------------------
(* Model of the Nikumaroro imagery scripts:                                *)
(*   scripts/getdata_nikumaroro.py   - per-year selection, download,       *)
(*                                     manifest (main, download_image,     *)
(*                                     write_viewer_config)                *)
(*   scripts/nikumaroro_analysis.py  - download_sentinel2_images,          *)
(*                                     align_images, create_viewer_config  *)
(* One entry point runs per behaviour; Init picks it (variable prog).      *)
EXTENDS Integers, Sequences, FiniteSets, TLC

VARIABLES
    prog,          \* entry point being executed
    pc,            \* position inside that entry point
    year,          \* main(): loop variable
    image,         \* main(): source of the chosen ee.Image, or None
    date_str,      \* main(): date of the chosen image, or None
    images_info,   \* accepted frames (main / download_sentinel2_images)
    failed_years,  \* main(): skipped years
    queries,       \* log of catalog queries: <<year, source, result>>
    downloads,     \* log of download_image calls: <<year, filename>>
    files,         \* names of the files in OUTPUT_DIR
    lastResp,      \* response seen by the latest fetch, or None
    config,        \* value returned by the manifest builder, or None
    report,        \* what the summary printed
    dates,         \* download_sentinel2_images: timestamps from the catalog
    frames_in,     \* argument of align_images / of a manifest builder
    images,        \* align_images: arrays loaded from disk
    ref,           \* align_images: <<ref_height, ref_width>>
    idx,           \* loop index (align_images, download_sentinel2_images)
    aligned_images,\* align_images: result list
    resized,       \* align_images: loop indices that went through resize
    saved,         \* align_images: aligned file name -> what was saved
    returned       \* values returned by repeated calls of download_image

vars == <<prog, pc, year, image, date_str, images_info, failed_years, queries,
          downloads, files, lastResp, config, report, dates, frames_in,
          images, ref, idx, aligned_images, resized, saved, returned>>

mainVars  == <<year, image, date_str, failed_years, queries, downloads>>
alignVars == <<images, ref, aligned_images, resized, saved>>
inputVars == <<dates, frames_in>>

None == "None"

\* ------------------------------------------------------------------------
\* Bounds of the model
\* ------------------------------------------------------------------------
MaxYears == 5      \* years of the range START_YEAR..END_YEAR that are explored
MaxFrames == 3     \* longest frame list given to align_images / the builders
MaxDates == 2      \* dates iterated by download_sentinel2_images
MaxFetches == 2    \* calls of download_image for one candidate

\* ------------------------------------------------------------------------
\* Configuration (getdata_nikumaroro.py)
\* ------------------------------------------------------------------------
START_YEAR == 2013
END_YEAR == 2024
IMAGE_PX == 1024
S2_FIRST_YEAR == 2015
HTTP_OK == 200

Min(a, b) == IF a <= b THEN a ELSE b

\* last year of range(START_YEAR, END_YEAR + 1) that the model explores
LastYear == Min(END_YEAR, START_YEAR + MaxYears - 1)
Years == START_YEAR..LastYear

\* ------------------------------------------------------------------------
\* Strings and their order.  Python compares str lexicographically; the
\* strings of the model are listed here in that order.
\* ------------------------------------------------------------------------
StrOrder == << "", "2013-07-10", "2014-07-10", "2015-07-10", "2016-03-01",
               "2016-07-10", "2017-07-10", "2018-07-10", "2019-07-10",
               "2020-07-10", "2020-11-05", "2021-07-10", "2022-07-10",
               "2023-07-10", "2024-07-10", "current", "unknown" >>

StrRank(s) == CHOOSE i \in DOMAIN StrOrder : StrOrder[i] = s

\* image.date().format("YYYY-MM-dd") of the image chosen for a year: a date
\* inside the filterDate window of that year
YearDates == << "2013-07-10", "2014-07-10", "2015-07-10", "2016-07-10",
                "2017-07-10", "2018-07-10", "2019-07-10", "2020-07-10",
                "2021-07-10", "2022-07-10", "2023-07-10", "2024-07-10" >>

DateOfYear(y) == YearDates[y - START_YEAR + 1]

\* ------------------------------------------------------------------------
\* HTTP responses seen by a fetch
\* ------------------------------------------------------------------------
\* kind "url_error": getThumbURL raised; "get_error": requests.get raised
\* (network error or timeout); "response": a response came back.
Responses ==
    { [kind |-> "url_error", status |-> 0, ctype |-> "", body |-> "none"],
      [kind |-> "get_error", status |-> 0, ctype |-> "", body |-> "none"] }
    \cup
    [ kind : {"response"}, status : {200, 500},
      ctype : {"image/png", "text/html"}, body : {"valid", "truncated"} ]

\* no fetch has been made in the current iteration
NoResponse == [kind |-> "none", status |-> 0, ctype |-> "", body |-> "none"]

\* no manifest builder has been called
NoConfig == [ raised |-> "not called", images |-> <<>>, total_images |-> 0,
              start |-> "", end |-> "" ]

\* "image" in content_type
ContainsImage(ct) == ct \in {"image/png", "image/jpeg"}

\* Image.open(...); img.verify() succeeds
Decodes(body) == body = "valid"

\* download_image: every check passes and the function returns True
DownloadOk(r) ==
    /\ r.kind = "response"
    /\ ~(r.status # HTTP_OK \/ ~ContainsImage(r.ctype))
    /\ Decodes(r.body)

\* ------------------------------------------------------------------------
\* main() of getdata_nikumaroro.py
\* ------------------------------------------------------------------------
QueryResults == {"found", "none", "raise"}

\* if year >= 2015
UseSentinel2(y) == y >= S2_FIRST_YEAR

\* a fallback that ignores the result of the first source
FallbackAlways(img) == TRUE

\* if image is None (before the Landsat 8 query)
FallbackNeeded(img) == img = None

\* if image is None (after both queries)
NoImagery(img) == img = None

\* a name that also depends on the number of fetches made so far
FilenamePerFetch(src, y) ==
    IF src = "Sentinel-2" THEN <<"sentinel2", y + Len(downloads), "png">>
    ELSE <<"landsat8", y + Len(downloads), "png">>

\* f"sentinel2_{year}.png" / f"landsat8_{year}.png"
Filename(src, y) == IF src = "Sentinel-2" THEN <<"sentinel2", y, "png">>
                    ELSE <<"landsat8", y, "png">>

Frame(d, src, y) ==
    [ date |-> d, filename |-> Filename(src, y),
      aligned_filename |-> Filename(src, y), source |-> src,
      width |-> IMAGE_PX, height |-> IMAGE_PX ]

\* OUTPUT_DIR / "viewer_config.json" (same shape as the image names)
ConfigFile == <<"viewer_config", 0, "json">>

\* a skip that forgets to record the year
SkipYearForgets(fy, y) == fy

\* failed_years.append(year)
SkipYear(fy, y) == Append(fy, y)

\* position after one loop iteration: next year, or the summary
NextPc(y) == IF y + 1 <= LastYear THEN "s2" ELSE "summary"

\* stable ascending sort of a sequence s by the natural-number keys k
\* (k[i] is the key of s[i]): list.sort(key=...)
SortPos(k, i) ==
    Cardinality({ j \in DOMAIN k : k[j] < k[i] \/ (k[j] = k[i] /\ j < i) }) + 1

StableSort(s, k) ==
    [ n \in 1..Len(s) |-> s[CHOOSE i \in 1..Len(s) : SortPos(k, i) = n] ]

\* write_viewer_config(images_info)
WriteViewerConfig(info) ==
    LET sorted == StableSort(info, [i \in 1..Len(info) |-> StrRank(info[i].date)])
    IN [ raised |-> None,
         images |-> sorted,
         total_images |-> Len(sorted),
         start |-> IF sorted # <<>> THEN sorted[1].date ELSE "unknown",
         end |-> IF sorted # <<>> THEN sorted[Len(sorted)].date ELSE "unknown" ]

\* the year's Sentinel-2 query (get_best_sentinel2)
QuerySentinel2(r) ==
    /\ prog = "getdata_main" /\ pc = "s2"
    /\ UseSentinel2(year)
    /\ queries' = Append(queries, <<year, "Sentinel-2", r>>)
    /\ lastResp' = NoResponse
    /\ IF r = "raise"
       THEN /\ pc' = "raised"
            /\ UNCHANGED <<image, date_str>>
       ELSE /\ pc' = "l8"
            /\ image' = IF r = "found" THEN "Sentinel-2" ELSE None
            /\ date_str' = IF r = "found" THEN DateOfYear(year) ELSE None
    /\ UNCHANGED <<returned, prog, year, images_info, failed_years, downloads, files,
                   config, report, idx, inputVars, alignVars>>

\* years before 2015: the Sentinel-2 branch is not entered
SkipSentinel2 ==
    /\ prog = "getdata_main" /\ pc = "s2"
    /\ ~UseSentinel2(year)
    /\ pc' = "l8"
    /\ image' = None /\ date_str' = None
    /\ lastResp' = NoResponse
    /\ UNCHANGED <<returned, prog, year, images_info, failed_years, queries, downloads,
                   files, config, report, idx, inputVars, alignVars>>

\* the year's Landsat 8 query (get_best_landsat8)
QueryLandsat8(r) ==
    /\ prog = "getdata_main" /\ pc = "l8"
    /\ FallbackNeeded(image)
    /\ queries' = Append(queries, <<year, "Landsat 8", r>>)
    /\ IF r = "raise"
       THEN /\ pc' = "raised"
            /\ UNCHANGED <<image, date_str>>
       ELSE /\ pc' = "check"
            /\ image' = IF r = "found" THEN "Landsat 8" ELSE None
            /\ date_str' = IF r = "found" THEN DateOfYear(year) ELSE None
    /\ UNCHANGED <<returned, prog, year, images_info, failed_years, downloads, files,
                   lastResp, config, report, idx, inputVars, alignVars>>

\* Sentinel-2 gave an image: the Landsat 8 branch is not entered
SkipLandsat8 ==
    /\ prog = "getdata_main" /\ pc = "l8"
    /\ ~FallbackNeeded(image)
    /\ pc' = "check"
    /\ UNCHANGED <<returned, prog, year, image, date_str, images_info, failed_years,
                   queries, downloads, files, lastResp, config, report,
                   idx, inputVars, alignVars>>

\* no imagery for the year: failed_years.append(year); continue
NoCoverage ==
    /\ prog = "getdata_main" /\ pc = "check"
    /\ NoImagery(image)
    /\ failed_years' = SkipYear(failed_years, year)
    /\ year' = year + 1
    /\ pc' = NextPc(year)
    /\ UNCHANGED <<returned, prog, image, date_str, images_info, queries, downloads,
                   files, lastResp, config, report, idx, inputVars, alignVars>>

\* a loop that, when the Sentinel-2 download fails, falls back to Landsat 8
\* for the same year instead of skipping the year
DownloadWithFallback(r) ==
    /\ prog = "getdata_main" /\ pc = "check"
    /\ ~NoImagery(image)
    /\ downloads' = Append(downloads, <<year, Filename(image, year)>>)
    /\ lastResp' = r
    /\ IF DownloadOk(r)
       THEN /\ files' = files \cup {Filename(image, year)}
            /\ images_info' = Append(images_info, Frame(date_str, image, year))
            /\ year' = year + 1
            /\ pc' = NextPc(year)
            /\ UNCHANGED <<failed_years, image, date_str>>
       ELSE IF image = "Sentinel-2"
            THEN /\ image' = None /\ date_str' = None
                 /\ pc' = "l8"
                 /\ UNCHANGED <<files, images_info, failed_years, year>>
            ELSE /\ failed_years' = Append(failed_years, year)
                 /\ year' = year + 1
                 /\ pc' = NextPc(year)
                 /\ UNCHANGED <<files, images_info, image, date_str>>
    /\ UNCHANGED <<returned, prog, queries, config, report, idx, inputVars,
                   alignVars>>

\* download_image(image, roi, vis_params, filename) and the branch on ok
Download(r) ==
    /\ prog = "getdata_main" /\ pc = "check"
    /\ ~NoImagery(image)
    /\ downloads' = Append(downloads, <<year, Filename(image, year)>>)
    /\ lastResp' = r
    /\ IF DownloadOk(r)
       THEN /\ files' = files \cup {Filename(image, year)}
            /\ images_info' = Append(images_info, Frame(date_str, image, year))
            /\ UNCHANGED failed_years
       ELSE /\ failed_years' = Append(failed_years, year)
            /\ UNCHANGED <<files, images_info>>
    /\ year' = year + 1
    /\ pc' = NextPc(year)
    /\ UNCHANGED <<returned, prog, image, date_str, queries, config, report, idx,
                   inputVars, alignVars>>

\* the summary after the loop
Summary ==
    /\ prog = "getdata_main" /\ pc = "summary"
    /\ IF images_info # <<>>
       THEN /\ config' = WriteViewerConfig(images_info)
            /\ images_info' = WriteViewerConfig(images_info).images
            /\ files' = files \cup {ConfigFile}
            /\ report' = "done"
       ELSE /\ report' = "no_images"
            /\ UNCHANGED <<config, images_info, files>>
    /\ pc' = "done"
    /\ UNCHANGED <<returned, prog, mainVars, lastResp, idx, inputVars, alignVars>>

\* ------------------------------------------------------------------------
\* download_sentinel2_images() of nikumaroro_analysis.py
\* ------------------------------------------------------------------------
\* system:time_start values of the model and the local date each formats to
\* (datetime.fromtimestamp(date_ms / 1000).strftime('%Y-%m-%d'))
Timestamps == {1, 2, 3}
TsDates == << "2016-03-01", "2016-03-01", "2020-11-05" >>
DateOfTimestamp(t) == TsDates[t]

\* f"sentinel2_{date_str.replace('-', '')}.png"
S2Filename(d) == <<"sentinel2", d, "png">>

\* if response.status_code == 200
S2Accepts(r) == r.kind = "response" /\ r.status = HTTP_OK

\* one iteration of the loop over dates[:50]
S2Fetch(r) ==
    /\ prog = "download_sentinel2_images" /\ pc = "loop"
    /\ idx <= Len(dates)
    /\ lastResp' = r
    /\ LET date_ms == dates[idx]
           d == DateOfTimestamp(date_ms)
       IN IF S2Accepts(r)
          THEN /\ files' = files \cup {S2Filename(d)}
               /\ images_info' = Append(images_info,
                      [ date |-> d, timestamp |-> date_ms,
                        filename |-> S2Filename(d), source |-> "Sentinel-2" ])
          ELSE UNCHANGED <<files, images_info>>
    /\ idx' = idx + 1
    /\ UNCHANGED <<returned, prog, pc, mainVars, config, report, inputVars, alignVars>>

\* no date left (or none found): return images_info
S2Return ==
    /\ prog = "download_sentinel2_images" /\ pc = "loop"
    /\ idx > Len(dates)
    /\ pc' = "done"
    /\ UNCHANGED <<returned, prog, mainVars, images_info, files, lastResp, config,
                   report, idx, inputVars, alignVars>>

\* ------------------------------------------------------------------------
\* align_images(images_info) of nikumaroro_analysis.py
\* ------------------------------------------------------------------------
\* Pixel sizes (width, height) of the files on disk
Sizes == { <<800, 600>>, <<1024, 1024>> }

\* filepath.exists() is false
Missing == <<0, 0>>

\* The info dict of an input frame; file describes OUTPUT_DIR / filename:
\* its pixel size, or Missing
DiskFrames == [ filename : {"frame"}, date : {"2016-03-01"},
                source : {"Sentinel-2"}, file : Sizes \cup {Missing} ]

\* distinct file names: the i-th frame is <<"frame", i, "png">>
Named(f) == [ i \in DOMAIN f |-> [ f[i] EXCEPT !.filename = <<"frame", i, "png">> ] ]

\* np.array(img).shape[:2] of an image of size (width, height)
Shape(size) == <<size[2], size[1]>>

\* images: the arrays of the frames whose file exists, in input order;
\* pixels_of remembers which input frame the pixels come from
RECURSIVE LoadFrom(_, _)
LoadFrom(f, i) ==
    IF i > Len(f) THEN <<>>
    ELSE IF f[i].file # Missing
         THEN <<[pixels_of |-> i, shape |-> Shape(f[i].file)]>> \o LoadFrom(f, i + 1)
         ELSE LoadFrom(f, i + 1)

\* a reference taken from the last image instead of the first
RefShapeOfLast(imgs) == imgs[Len(imgs)].shape

\* ref_height, ref_width = images[0].shape[:2]
RefShape(imgs) == imgs[1].shape

\* a loop that never resamples
NeedsResizeNever(shape, r) == FALSE

\* if img.shape[:2] != (ref_height, ref_width)
NeedsResize(shape, r) == shape # r

\* f"aligned_{images_info[i]['filename']}"
AlignedName(fn) == <<"aligned", fn>>

\* if not images_info: return []
AlignEmptyInput ==
    /\ prog = "align_images" /\ pc = "start"
    /\ frames_in = <<>>
    /\ pc' = "done"
    /\ UNCHANGED <<returned, prog, mainVars, images_info, files, lastResp, config,
                   report, idx, inputVars, alignVars>>

\* load every file that exists; return [] when none does; else fix the
\* reference size
AlignLoad ==
    /\ prog = "align_images" /\ pc = "start"
    /\ frames_in # <<>>
    /\ images' = LoadFrom(frames_in, 1)
    /\ IF images' = <<>>
       THEN /\ pc' = "done"
            /\ UNCHANGED <<ref, idx>>
       ELSE /\ ref' = RefShape(images')
            /\ idx' = 1
            /\ pc' = "resize"
    /\ UNCHANGED <<returned, prog, mainVars, images_info, files, lastResp, config,
                   report, inputVars, aligned_images, resized, saved>>

\* one iteration of "for i, img in enumerate(images)"
AlignStep ==
    /\ prog = "align_images" /\ pc = "resize"
    /\ idx <= Len(images)
    /\ LET img == images[idx]
           info == frames_in[idx]
           shape == IF NeedsResize(img.shape, ref) THEN ref ELSE img.shape
       IN /\ resized' = IF NeedsResize(img.shape, ref)
                        THEN resized \cup {idx} ELSE resized
          /\ saved' = Append(saved, [ name |-> AlignedName(info.filename),
                                      pixels_of |-> img.pixels_of,
                                      shape |-> shape ])
          /\ aligned_images' = Append(aligned_images,
                 [ filename |-> info.filename, date |-> info.date,
                   source |-> info.source,
                   aligned_filename |-> AlignedName(info.filename),
                   width |-> ref[2], height |-> ref[1] ])
    /\ idx' = idx + 1
    /\ UNCHANGED <<returned, prog, pc, mainVars, images_info, files, lastResp, config,
                   report, inputVars, images, ref>>

\* return aligned_images
AlignReturn ==
    /\ prog = "align_images" /\ pc = "resize"
    /\ idx > Len(images)
    /\ pc' = "done"
    /\ UNCHANGED <<returned, prog, mainVars, images_info, files, lastResp, config,
                   report, idx, inputVars, alignVars>>

\* ------------------------------------------------------------------------
\* The manifest builders called on a frame list:
\*   write_viewer_config (getdata_nikumaroro.py)
\*   create_viewer_config (nikumaroro_analysis.py)
\* ------------------------------------------------------------------------
\* frames as main() of getdata_nikumaroro.py builds them
WriteFrames == [ date : {"2013-07-10", "2016-03-01", "2020-11-05"},
                 filename : {"frame"}, source : {"Sentinel-2"} ]

\* frames as nikumaroro_analysis.py builds them: download_sentinel2_images
\* gives date and timestamp, download_static_satellite_tiles gives the date
\* 'current' and no timestamp
CreateFrames ==
    { [ date |-> DateOfTimestamp(t), timestamp |-> t, filename |-> "frame",
        source |-> "Sentinel-2" ] : t \in Timestamps }
    \cup { [ date |-> "current", filename |-> "frame", source |-> "esri_world",
             zoom |-> 18 ] }

\* x.get(k, default)
Get(x, k, default) == IF k \in DOMAIN x THEN x[k] ELSE default

\* key=lambda x: x.get('timestamp', 0) or x.get('date', ''): an int when the
\* frame has a non-zero timestamp, else a str (v is its place in the order of
\* its type)
SortKey(x) ==
    LET t == Get(x, "timestamp", 0)
    IN IF t # 0 THEN [type |-> "int", v |-> t]
       ELSE [type |-> "str", v |-> StrRank(Get(x, "date", ""))]

\* '<' between an int and a str raises TypeError; sorting two or more frames
\* compares every pair of neighbours of the result
MixedKeys(fs) ==
    \E i, j \in DOMAIN fs : SortKey(fs[i]).type # SortKey(fs[j]).type

\* create_viewer_config(aligned_images)
CreateViewerConfig(fs) ==
    IF MixedKeys(fs)
    THEN [ NoConfig EXCEPT !.raised = "TypeError" ]
    ELSE LET sorted == StableSort(fs, [i \in 1..Len(fs) |-> SortKey(fs[i]).v])
         IN IF sorted = <<>>
            THEN [ NoConfig EXCEPT !.raised = "IndexError" ]
            ELSE [ raised |-> None,
                   images |-> sorted,
                   total_images |-> Len(sorted),
                   start |-> Get(sorted[1], "date", "unknown"),
                   end |-> Get(sorted[Len(sorted)], "date", "unknown") ]

\* write_viewer_config(frames_in).  Both builders sort their argument in
\* place; frames_in keeps the list as it was passed, config.images is the
\* list after the sort.
CallWriteViewerConfig ==
    /\ prog = "write_viewer_config" /\ pc = "start"
    /\ config' = WriteViewerConfig(frames_in)
    /\ files' = files \cup {ConfigFile}
    /\ pc' = "done"
    /\ UNCHANGED <<returned, prog, mainVars, images_info, lastResp, report, idx,
                   inputVars, alignVars>>

\* create_viewer_config(frames_in)
CallCreateViewerConfig ==
    /\ prog = "create_viewer_config" /\ pc = "start"
    /\ config' = CreateViewerConfig(frames_in)
    /\ IF config'.raised = None
       THEN /\ files' = files \cup {ConfigFile}
            /\ pc' = "done"
       ELSE /\ pc' = "raised"
            /\ UNCHANGED files
    /\ UNCHANGED <<returned, prog, mainVars, images_info, lastResp, report, idx,
                   inputVars, alignVars>>

\* ------------------------------------------------------------------------
\* download_image called again for one candidate: the image of one source
\* for one year, with the file name main() gives it
\* ------------------------------------------------------------------------
\* download_image(image, roi, vis_params, filename)
CallDownloadImage(r) ==
    /\ prog = "download_image" /\ pc = "call"
    /\ Len(returned) < MaxFetches
    /\ downloads' = Append(downloads, <<year, Filename(image, year)>>)
    /\ lastResp' = r
    /\ files' = IF DownloadOk(r)
                THEN files \cup {Filename(image, year)}
                ELSE files
    /\ returned' = Append(returned, DownloadOk(r))
    /\ UNCHANGED <<prog, pc, year, image, date_str, images_info, failed_years,
                   queries, config, report, idx, inputVars, alignVars>>

\* ------------------------------------------------------------------------
\* Initial states: one per entry point and input
\* ------------------------------------------------------------------------
SeqsUpTo(S, n) == UNION { [1..k -> S] : k \in 0..n }

Fresh ==
    /\ year = START_YEAR
    /\ image = None /\ date_str = None
    /\ images_info = <<>> /\ failed_years = <<>>
    /\ queries = <<>> /\ downloads = <<>>
    /\ files = {} /\ lastResp = NoResponse /\ config = NoConfig
    /\ report = None
    /\ images = <<>> /\ ref = <<0, 0>> /\ idx = 1
    /\ aligned_images = <<>> /\ resized = {} /\ saved = <<>>
    /\ returned = <<>>

InitMain ==
    /\ prog = "getdata_main" /\ pc = "s2"
    /\ dates = <<>> /\ frames_in = <<>>
    /\ Fresh

\* a candidate main() can select: Sentinel-2 from 2015 on, Landsat 8 for
\* every year
InitDownloadImage ==
    /\ prog = "download_image" /\ pc = "call"
    /\ dates = <<>> /\ frames_in = <<>>
    /\ images_info = <<>> /\ failed_years = <<>>
    /\ queries = <<>> /\ downloads = <<>>
    /\ files = {} /\ lastResp = NoResponse /\ config = NoConfig
    /\ report = None
    /\ images = <<>> /\ ref = <<0, 0>> /\ idx = 1
    /\ aligned_images = <<>> /\ resized = {} /\ saved = <<>>
    /\ returned = <<>>
    /\ year \in Years
    /\ image \in {"Sentinel-2", "Landsat 8"}
    /\ image = "Sentinel-2" => UseSentinel2(year)
    /\ date_str = DateOfYear(year)

InitS2 ==
    /\ prog = "download_sentinel2_images" /\ pc = "loop"
    /\ dates \in SeqsUpTo(Timestamps, MaxDates)
    /\ frames_in = <<>>
    /\ Fresh

InitAlign ==
    /\ prog = "align_images" /\ pc = "start"
    /\ dates = <<>>
    /\ frames_in \in { Named(f) : f \in SeqsUpTo(DiskFrames, MaxFrames) }
    /\ Fresh

InitWrite ==
    /\ prog = "write_viewer_config" /\ pc = "start"
    /\ dates = <<>>
    /\ frames_in \in { Named(f) : f \in SeqsUpTo(WriteFrames, MaxFrames) }
    /\ Fresh

InitCreate ==
    /\ prog = "create_viewer_config" /\ pc = "start"
    /\ dates = <<>>
    /\ frames_in \in { Named(f) : f \in SeqsUpTo(CreateFrames, MaxFrames) }
    /\ Fresh

Init ==
    InitMain \/ InitDownloadImage \/ InitS2 \/ InitAlign \/ InitWrite
    \/ InitCreate

Next ==
    \/ \E r \in QueryResults : QuerySentinel2(r)
    \/ SkipSentinel2
    \/ \E r \in QueryResults : QueryLandsat8(r)
    \/ SkipLandsat8
    \/ NoCoverage
    \/ \E r \in Responses : Download(r)
    \/ Summary
    \/ \E r \in Responses : CallDownloadImage(r)
    \/ \E r \in Responses : S2Fetch(r)
    \/ S2Return
    \/ AlignEmptyInput
    \/ AlignLoad
    \/ AlignStep
    \/ AlignReturn
    \/ CallWriteViewerConfig
    \/ CallCreateViewerConfig

Spec == Init /\ [][Next]_vars

\* ------------------------------------------------------------------------
\* Properties of main() of getdata_nikumaroro.py
\* ------------------------------------------------------------------------
InMain == prog = "getdata_main"

QueriesOf(y) == { i \in DOMAIN queries : queries[i][1] = y }
Queried(y, src) == \E i \in QueriesOf(y) : queries[i][2] = src
Answered(y, src, res) ==
    \E i \in QueriesOf(y) : queries[i][2] = src /\ queries[i][3] = res

DownloadsOf(y) == { i \in DOMAIN downloads : downloads[i][1] = y }
FramesOf(y) ==
    { i \in DOMAIN images_info : images_info[i].filename[2] = y }
FailedAt(y) == { i \in DOMAIN failed_years : failed_years[i] = y }

\* C1: short-circuit of the per-year selection.  A year whose first source
\* (Sentinel-2 from 2015 on, Landsat 8 before) returned a candidate never has
\* its second source queried; Landsat 8 is queried for a year from 2015 on
\* only after Sentinel-2 returned (None, None) for it; Sentinel-2 is never
\* queried for a year before 2015; no source is queried twice for a year.
C1_ShortCircuit ==
    InMain =>
      \A y \in Years :
        /\ y < 2015 => ~Queried(y, "Sentinel-2")
        /\ (y >= 2015 /\ Answered(y, "Sentinel-2", "found"))
              => ~Queried(y, "Landsat 8")
        /\ (y >= 2015 /\ Queried(y, "Landsat 8"))
              => Answered(y, "Sentinel-2", "none")
        /\ Cardinality(QueriesOf(y)) <= 2
        /\ \A i, j \in QueriesOf(y) : queries[i][2] = queries[j][2] => i = j

\* a year from 2015 on whose Sentinel-2 query found an image has been
\* processed to its end, and a year before 2015 too
C1_Witness ==
    /\ InMain /\ pc = "done"
    /\ \E y \in Years : y >= 2015 /\ Answered(y, "Sentinel-2", "found")
    /\ \E y \in Years : y >= 2015 /\ Answered(y, "Landsat 8", "found")
    /\ \E y \in Years : y < 2015 /\ Answered(y, "Landsat 8", "found")

\* every source queried for y returned no candidate
NoCandidates(y) ==
    /\ QueriesOf(y) # {}
    /\ \A i \in QueriesOf(y) : queries[i][3] = "none"

\* C2: a year for which every queried source returned zero candidates gets
\* no download, is appended to failed_years, adds nothing to images_info,
\* and the loop goes on to the next year (or to the summary after the last
\* year) without raising.
C2_NoCoverageSkips ==
    [][ (InMain /\ pc = "check" /\ NoCandidates(year)) =>
            /\ downloads' = downloads
            /\ failed_years' = Append(failed_years, year)
            /\ images_info' = images_info
            /\ files' = files
            /\ year' = year + 1
            /\ pc' = IF year < LastYear THEN "s2" ELSE "summary" ]_vars

\* a year without candidates was skipped, and a later year was accepted
C2_Witness ==
    /\ InMain
    /\ \E y \in Years :
         /\ y >= 2015 /\ y < year /\ NoCandidates(y)
         /\ Cardinality(QueriesOf(y)) = 2
         /\ FailedAt(y) # {} /\ DownloadsOf(y) = {} /\ FramesOf(y) = {}
         /\ \E z \in Years : z > y /\ FramesOf(z) # {}

\* ------------------------------------------------------------------------
\* Properties of the fetches (download_image, download_sentinel2_images)
\* ------------------------------------------------------------------------
\* a step that makes one fetch
FetchStep ==
    \/ InMain /\ downloads' # downloads
    \/ prog = "download_sentinel2_images" /\ idx' # idx

\* no transport error, status 200, an image content type, a valid raster
AllChecksPass(r) ==
    /\ r.kind = "response"
    /\ r.status = 200
    /\ r.ctype = "image/png"
    /\ r.body = "valid"

\* C3: a fetch writes a file or records a frame only if the response passed
\* every check (transport, status 200, image content type, decodable
\* raster); a rejected response leaves the files and the accepted list as
\* they were.
C3_AcceptOnlyValid ==
    [][ (FetchStep /\ ~AllChecksPass(lastResp')) =>
            (files' = files /\ images_info' = images_info) ]_vars

\* the same, for download_image in main() alone
C3_DownloadImageOnly ==
    [][ (InMain /\ FetchStep /\ ~AllChecksPass(lastResp')) =>
            (files' = files /\ images_info' = images_info) ]_vars

\* a transport failure happened while year y was processed
TransportFailure(y) ==
    \/ \E i \in QueriesOf(y) : queries[i][3] = "raise"
    \/ /\ DownloadsOf(y) # {} /\ year = y + 1
       /\ lastResp.kind \in {"url_error", "get_error"}

\* C4: a transport failure at the catalog query, at the rendering-URL
\* resolution or at the byte download of a year puts the year in
\* failed_years and never terminates the run.
C4_TransportFailureSkipsYear ==
    InMain =>
      \A y \in Years :
        TransportFailure(y) => (pc # "raised" /\ FailedAt(y) # {})

\* the run is over: main() returned, or an exception left it
RunEnded == pc \in {"done", "raised"}

\* the loop over the years ran to its end
LoopEnded == pc \in {"summary", "done"}

\* download_image returned False for year y
DownloadFailed(y) == DownloadsOf(y) # {} /\ FramesOf(y) = {} /\ year > y

\* year y went through the loop body to its end
Processed(y) == FramesOf(y) # {} \/ FailedAt(y) # {}

\* C5: when download_image fails for a year, the year is in failed_years,
\* every later year of the range is still processed, and at the end every
\* year of the range is in exactly one of the accepted frames and
\* failed_years.
C5_FailuresIsolated ==
    InMain =>
      /\ \A y \in Years :
           DownloadFailed(y) =>
             /\ Cardinality(FailedAt(y)) = 1
             /\ RunEnded => \A z \in Years : z > y => Processed(z)
      /\ LoopEnded =>
           \A y \in Years :
             Cardinality(FramesOf(y)) + Cardinality(FailedAt(y)) = 1

\* C5, the part about the accepted list: a failed download leaves every
\* accepted frame as it was
C5_FailedDownloadKeepsFrames ==
    [][ (InMain /\ FetchStep /\ ~AllChecksPass(lastResp')) =>
            /\ images_info' = images_info
            /\ failed_years' = Append(failed_years, year)
            /\ year' = year + 1 /\ pc' # "raised" ]_vars

\* ------------------------------------------------------------------------
\* Properties of align_images
\* ------------------------------------------------------------------------
AlignDone == prog = "align_images" /\ pc = "done"

\* the files of the input have the sizes 800x600, 1024x1024, 1024x1024
SpecExampleInput ==
    /\ Len(frames_in) = 3
    /\ frames_in[1].file = <<800, 600>>
    /\ frames_in[2].file = <<1024, 1024>>
    /\ frames_in[3].file = <<1024, 1024>>

\* every returned frame and every saved file has width w and height h
AllSized(w, h) ==
    /\ \A k \in DOMAIN aligned_images :
         aligned_images[k].width = w /\ aligned_images[k].height = h
    /\ \A k \in DOMAIN saved : saved[k].shape = <<h, w>>

\* C6 as stated: on 800x600, 1024x1024, 1024x1024 the first frame is resized
\* to 1024x1024, the other two are untouched, and the three results are
\* 1024x1024.
C6_FirstResizedTo1024 ==
    (AlignDone /\ SpecExampleInput) =>
        /\ Len(aligned_images) = 3
        /\ resized = {1}
        /\ AllSized(1024, 1024)

\* C6 amended: on 800x600, 1024x1024, 1024x1024 the first frame is left
\* untouched, the second and the third are resized to 800x600, and the three
\* results are 800x600.
C6_OthersResizedTo800x600 ==
    (AlignDone /\ SpecExampleInput) =>
        /\ Len(aligned_images) = 3
        /\ resized = {2, 3}
        /\ AllSized(800, 600)

\* align_images returned on the input of the example
C6_Witness ==
    AlignDone /\ SpecExampleInput /\ Len(saved) = 3

\* the input frames whose file exists
OnDisk == { i \in DOMAIN frames_in : frames_in[i].file # Missing }

\* the first of them
FirstOnDisk == CHOOSE i \in OnDisk : \A j \in OnDisk : i <= j

\* the loop positions whose image differs in size from input frame i
DifferFrom(i) ==
    { k \in DOMAIN images :
        frames_in[images[k].pixels_of].file # frames_in[i].file }

\* C7 as stated: whenever frames are returned, the reference is the size of
\* the first frame of the input, exactly the frames that differ from it are
\* resampled, and every returned frame records that size.
C7_ReferenceIsFirstInput ==
    (AlignDone /\ aligned_images # <<>>) =>
        /\ frames_in[1].file # Missing
        /\ ref = Shape(frames_in[1].file)
        /\ resized = DifferFrom(1)
        /\ AllSized(frames_in[1].file[1], frames_in[1].file[2])

\* C7 amended: whenever a file of the input exists, the reference is the
\* size of the first input frame whose file exists, exactly the loaded
\* frames that differ from it are resampled, one frame is returned per
\* loaded image, and every returned frame records the reference size.
C7_ReferenceIsFirstOnDisk ==
    (AlignDone /\ OnDisk # {}) =>
        /\ ref = Shape(frames_in[FirstOnDisk].file)
        /\ resized = DifferFrom(FirstOnDisk)
        /\ Len(aligned_images) = Cardinality(OnDisk)
        /\ Len(saved) = Cardinality(OnDisk)
        /\ AllSized(frames_in[FirstOnDisk].file[1],
                    frames_in[FirstOnDisk].file[2])
        /\ \A k \in DOMAIN saved :
             saved[k].shape # images[k].shape <=> k \in resized

\* the first file is missing, at least two others exist and one of them was
\* resampled
C7_Witness ==
    /\ AlignDone
    /\ Len(frames_in) >= 3 /\ frames_in[1].file = Missing
    /\ Len(aligned_images) >= 2
    /\ resized # {}

\* ------------------------------------------------------------------------
\* Properties of the manifest builders
\* ------------------------------------------------------------------------
\* a builder was called on frames_in and is over
BuilderCalled ==
    prog \in {"write_viewer_config", "create_viewer_config"} /\ pc # "start"

\* the place of a frame in the input (the names are <<"frame", i, "png">>)
InputPlace(x) == x.filename[2]

DateBefore(a, b) == StrRank(a) < StrRank(b)

\* out holds the frames of in, ascending by date, frames of equal date in
\* their input order
StableByDate(in, out) ==
    /\ Len(out) = Len(in)
    /\ \A i \in DOMAIN in : \E k \in DOMAIN out : out[k] = in[i]
    /\ \A k, l \in DOMAIN out :
         k < l =>
           \/ DateBefore(out[k].date, out[l].date)
           \/ /\ out[k].date = out[l].date
              /\ InputPlace(out[k]) < InputPlace(out[l])

\* C8: on every non-empty frame list the builder returns the frames in
\* ascending date order, frames of equal date in input order, and the date
\* range is the date of the first and of the last entry, the least and the
\* greatest date of the frames.
C8_SortedStableByDate ==
    (BuilderCalled /\ frames_in # <<>>) =>
        /\ config.raised = None
        /\ StableByDate(frames_in, config.images)
        /\ config.start = config.images[1].date
        /\ config.end = config.images[Len(config.images)].date
        /\ \A i \in DOMAIN frames_in :
             /\ ~DateBefore(frames_in[i].date, config.start)
             /\ ~DateBefore(config.end, frames_in[i].date)

\* the same, for write_viewer_config alone
C8_WriteViewerConfigOnly ==
    (prog = "write_viewer_config" /\ pc # "start" /\ frames_in # <<>>) =>
        /\ config.raised = None
        /\ StableByDate(frames_in, config.images)
        /\ config.start = config.images[1].date
        /\ config.end = config.images[Len(config.images)].date

\* C9: called on an empty frame list the builder does not raise and returns
\* total_images 0, no images, and "unknown" as start and end of the date
\* range.
C9_EmptyGivesUnknown ==
    (BuilderCalled /\ frames_in = <<>>) =>
        /\ config.raised = None
        /\ config.total_images = 0
        /\ config.images = <<>>
        /\ config.start = "unknown"
        /\ config.end = "unknown"

\* the same, for write_viewer_config alone
C9_WriteViewerConfigOnly ==
    (prog = "write_viewer_config" /\ pc # "start" /\ frames_in = <<>>) =>
        /\ config.raised = None
        /\ config.total_images = 0
        /\ config.images = <<>>
        /\ config.start = "unknown"
        /\ config.end = "unknown"

\* ------------------------------------------------------------------------
\* The end of a run of main() of getdata_nikumaroro.py
\* ------------------------------------------------------------------------
\* the years whose download was accepted
AcceptedYears ==
    { y \in Years : \E i \in DownloadsOf(y) : downloads[i][2] \in files }

ManifestWritten == ConfigFile \in files

\* C10: at the end of a run the manifest is written if and only if a year
\* was accepted; its images are the frames of the accepted years, one per
\* year, and total_images is their number; a run that accepted no year
\* reports the total failure.
C10_ManifestIffAccepted ==
    (InMain /\ RunEnded) =>
        /\ ManifestWritten <=> AcceptedYears # {}
        /\ ManifestWritten =>
             /\ config.total_images = Cardinality(AcceptedYears)
             /\ Len(config.images) = Cardinality(AcceptedYears)
             /\ \A y \in Years :
                  Cardinality({ k \in DOMAIN config.images :
                                  config.images[k].filename[2] = y })
                    = IF y \in AcceptedYears THEN 1 ELSE 0
        /\ (pc = "done" /\ AcceptedYears = {}) => report = "no_images"

\* the same, for the runs in which main() returns
C10_WhenMainReturns ==
    (InMain /\ pc = "done") =>
        /\ ManifestWritten <=> AcceptedYears # {}
        /\ ManifestWritten =>
             /\ config.total_images = Cardinality(AcceptedYears)
             /\ Len(config.images) = Cardinality(AcceptedYears)
        /\ AcceptedYears = {} => report = "no_images"

\* ------------------------------------------------------------------------
\* Properties of repeated fetches of one candidate
\* ------------------------------------------------------------------------
InRefetch == prog = "download_image"

\* the name the claim expects: the source label and the year, nothing else
NameOfCandidate ==
    << IF image = "Sentinel-2" THEN "sentinel2" ELSE "landsat8", year, "png" >>

\* the fetches made so far that were accepted
AcceptedFetches == { i \in DOMAIN returned : returned[i] }

\* C11: fetching the same candidate again writes the same file name, a
\* function of the source label and the year alone: once a fetch was
\* accepted the output directory holds exactly that one file, after the
\* first accepted fetch and after every later fetch, and before that it
\* holds none.
C11_RefetchSameFile ==
    InRefetch =>
        /\ AcceptedFetches # {} => files = {NameOfCandidate}
        /\ AcceptedFetches = {} => files = {}
        /\ \A i \in DOMAIN downloads : downloads[i] = <<year, NameOfCandidate>>

\* the candidate was fetched twice and both fetches were accepted
C11_Witness ==
    /\ InRefetch
    /\ Len(returned) = 2 /\ returned[1] /\ returned[2]
    /\ files = {NameOfCandidate}

\* ------------------------------------------------------------------------
\* One download attempt per year in main()
\* ------------------------------------------------------------------------
\* the source whose query found the image of year y
ChosenSources(y) ==
    { src \in {"Sentinel-2", "Landsat 8"} : Answered(y, src, "found") }

\* C12: download_image is called at most once for a year, and only for the
\* candidate the selection chose; a year whose download failed is in
\* failed_years once and has no frame; once the download of a year was
\* made, no source is queried and no download is made for that year again.
C12_SingleAttempt ==
    /\ [](InMain =>
            \A y \in Years :
              /\ Cardinality(DownloadsOf(y)) <= 1
              /\ \A i \in DownloadsOf(y) :
                   /\ year > y
                   /\ \E src \in ChosenSources(y) :
                        downloads[i][2] =
                          << IF src = "Sentinel-2" THEN "sentinel2"
                             ELSE "landsat8", y, "png" >>
              /\ (DownloadsOf(y) # {} /\ FramesOf(y) = {})
                   => Cardinality(FailedAt(y)) = 1)
    /\ [][ InMain =>
             \A y \in Years :
               DownloadsOf(y) # {} =>
                 /\ QueriesOf(y)' = QueriesOf(y)
                 /\ DownloadsOf(y)' = DownloadsOf(y) ]_vars

\* the Sentinel-2 download of a year failed, the year was skipped without a
\* Landsat 8 query, and the run went on to its end
C12_Witness ==
    /\ InMain /\ pc = "done"
    /\ \E y \in Years :
         /\ Answered(y, "Sentinel-2", "found")
         /\ DownloadsOf(y) # {} /\ FramesOf(y) = {}
         /\ FailedAt(y) # {}
         /\ ~Queried(y, "Landsat 8")

\* ------------------------------------------------------------------------
\* Pairing of pixels and metadata in align_images
\* ------------------------------------------------------------------------
\* the k-th returned entry and the k-th saved file belong together: the
\* entry carries aligned_filename saved[k].name
EntryOfFrame(k) == frames_in[saved[k].pixels_of]

\* C13: every returned entry carries the date, filename and source of the
\* input frame whose pixels were saved under its aligned_filename, and that
\* name is "aligned_" + the frame's filename; a frame whose file is missing
\* has no entry and does not shift the others.
C13_MetadataFollowsPixels ==
    AlignDone =>
        /\ Len(aligned_images) = Len(saved)
        /\ \A k \in DOMAIN aligned_images :
             /\ aligned_images[k].aligned_filename = saved[k].name
             /\ aligned_images[k].filename = EntryOfFrame(k).filename
             /\ aligned_images[k].date = EntryOfFrame(k).date
             /\ aligned_images[k].source = EntryOfFrame(k).source
             /\ saved[k].name = <<"aligned", EntryOfFrame(k).filename>>
        /\ \A i \in DOMAIN frames_in :
             frames_in[i].file = Missing =>
               \A k \in DOMAIN aligned_images :
                 aligned_images[k].filename # frames_in[i].filename

\* the same, for the inputs whose files all exist
C13_WhenEveryFileExists ==
    (AlignDone /\ \A i \in DOMAIN frames_in : frames_in[i].file # Missing) =>
        /\ Len(aligned_images) = Len(frames_in)
        /\ \A k \in DOMAIN aligned_images :
             /\ aligned_images[k].aligned_filename = saved[k].name
             /\ aligned_images[k].filename = EntryOfFrame(k).filename
             /\ saved[k].name = <<"aligned", EntryOfFrame(k).filename>>

=============================================================================
